---------------------------- MODULE Spec2Model ----------------------------
(***************************************************************************)
(* A model of rs-ggez-pong (src/main.rs): construction of the simulation   *)
(* state from a level (MainState::new), and the event handlers update,     *)
(* key_down_event, key_up_event and draw.                                   *)
(*                                                                         *)
(* The program computes in f32.  The model keeps that width: an f32 is a   *)
(* record [neg, m, e] standing for (-1)^neg * m * 2^e with m < 2^24, and   *)
(* every arithmetic operation rounds to nearest, ties to even, the way the *)
(* hardware does.  TLC's integers are 32 bits wide, so products are formed *)
(* in 12-bit limbs.                                                        *)
(***************************************************************************)
EXTENDS Integers, Sequences, FiniteSets, TLC

(***************************************************************************)
(* f32 arithmetic                                                          *)
(***************************************************************************)

\* Width of the f32 significand (implicit bit included) and the exponent of
\* the least subnormal.
MantBits == 24
MinExp == 0 - 149

Pow2(n) == 2 ^ n

RECURSIVE BitLen(_)
BitLen(n) == IF n = 0 THEN 0 ELSE 1 + BitLen(n \div 2)

FZero == [neg |-> FALSE, m |-> 0, e |-> MinExp]

\* The f32 nearest to (-1)^neg * (M + s) * 2^E, where 0 <= M < 2^31 and s is
\* some fraction in (0,1) when sticky holds and 0 otherwise.  Ties go to the
\* even significand.  A zero result is +0 (the sign of zero is not kept).
RoundPack(neg, M, E, sticky) ==
    IF M = 0 THEN FZero
    ELSE
      LET nbits == BitLen(M)
          sh0   == nbits - MantBits
          sh1   == MinExp - E
          shift == IF sh0 > sh1 THEN sh0 ELSE sh1
      IN  IF shift <= 0
          THEN [neg |-> neg, m |-> M * Pow2(0 - shift), e |-> E + shift]
          ELSE IF shift > 30 THEN FZero
          ELSE
            LET q    == M \div Pow2(shift)
                r    == M % Pow2(shift)
                half == Pow2(shift - 1)
                up   == \/ r > half
                        \/ r = half /\ sticky
                        \/ r = half /\ ~sticky /\ q % 2 = 1
                q1   == IF up THEN q + 1 ELSE q
            IN  IF q1 = 0 THEN FZero
                ELSE IF q1 = Pow2(MantBits)
                THEN [neg |-> neg, m |-> Pow2(MantBits - 1), e |-> E + shift + 1]
                ELSE [neg |-> neg, m |-> q1, e |-> E + shift]

\* `n as f32` for an integer n.
FromInt(n) == RoundPack(n < 0, IF n < 0 THEN 0 - n ELSE n, 0, FALSE)

FNeg(a) == IF a.m = 0 THEN a ELSE [a EXCEPT !.neg = ~a.neg]

\* The significand of a subnormal shifted up to full width (and its exponent
\* down), so that a product keeps all its leading bits.
Widen(a) ==
    IF a.m = 0 THEN a
    ELSE LET k == MantBits - BitLen(a.m)
         IN  [neg |-> a.neg, m |-> a.m * Pow2(k), e |-> a.e - k]

\* a * b in f32.  The 48-bit product of the significands is formed in 12-bit
\* limbs as H * 2^24 + L.
FMul(a, b) ==
    LET x   == Widen(a)
        y   == Widen(b)
        a1  == x.m \div 4096
        a0  == x.m % 4096
        b1  == y.m \div 4096
        b0  == y.m % 4096
        mid == a1 * b0 + a0 * b1
        low == (mid % 4096) * 4096 + a0 * b0
        L   == low % Pow2(24)
        H   == a1 * b1 + (mid \div 4096) + (low \div Pow2(24))
    IN  RoundPack(a.neg # b.neg, H * 4 + (L \div Pow2(22)), x.e + y.e + 22,
                  L % Pow2(22) # 0)

\* a + b in f32: the operand of smaller exponent is aligned to the other one
\* with three guard bits and a sticky bit.
FAdd(a, b) ==
    LET hi  == IF a.e >= b.e THEN a ELSE b
        lo  == IF a.e >= b.e THEN b ELSE a
        d   == hi.e - lo.e
        A   == hi.m * 8
        B   == IF d > 27 THEN 0 ELSE (lo.m * 8) \div Pow2(d)
        st  == IF d > 27 THEN lo.m # 0 ELSE (lo.m * 8) % Pow2(d) # 0
        E   == hi.e - 3
    IN  IF hi.neg = lo.neg
        THEN RoundPack(hi.neg, A + B, E, st)
        ELSE LET D == IF st THEN A - B - 1 ELSE A - B
             IN  IF D >= 0 THEN RoundPack(hi.neg, D, E, st)
                 ELSE RoundPack(lo.neg, 0 - D, E, FALSE)

FSub(a, b) == FAdd(a, FNeg(b))

\* Long division, one quotient bit at a time: <<quotient, remainder>> of
\* (q * D + r) * 2^k by D.
RECURSIVE DivLoop(_, _, _, _)
DivLoop(q, r, D, k) ==
    IF k = 0 THEN <<q, r>>
    ELSE IF 2 * r >= D THEN DivLoop(2 * q + 1, 2 * r - D, D, k - 1)
                       ELSE DivLoop(2 * q, 2 * r, D, k - 1)

\* a / b in f32, for normal a and b (b # 0).
FDiv(a, b) ==
    LET qr == DivLoop(a.m \div b.m, a.m % b.m, b.m, 26)
    IN  RoundPack(a.neg # b.neg, qr[1], a.e - b.e - 26, qr[2] # 0)

\* |a| < |b|: significands are normalised, so magnitudes order by exponent,
\* then by significand.
MagLt(a, b) == a.e < b.e \/ (a.e = b.e /\ a.m < b.m)

\* a < b, a <= b.
FLt(a, b) ==
    IF a.neg = b.neg
    THEN IF a.neg THEN MagLt(b, a) ELSE MagLt(a, b)
    ELSE a.neg

FLe(a, b) == a = b \/ FLt(a, b)

\* sqrt(S * 4^k) for an integer S < 2^30, one result bit per step (digit by
\* digit): <<root, remainder>> after the bit pairs of S from position p down
\* to 0 and then k pairs of zeros.
RECURSIVE SqrtLoop(_, _, _, _, _)
SqrtLoop(root, rem, S, p, k) ==
    IF p < 0 /\ k = 0 THEN <<root, rem>>
    ELSE LET pair  == IF p >= 0 THEN (S \div Pow2(2 * p)) % 4 ELSE 0
             r2    == rem * 4 + pair
             trial == root * 4 + 1
             np    == IF p >= 0 THEN p - 1 ELSE p
             nk    == IF p >= 0 THEN k ELSE k - 1
         IN  IF r2 >= trial THEN SqrtLoop(root * 2 + 1, r2 - trial, S, np, nk)
                            ELSE SqrtLoop(root * 2, r2, S, np, nk)

\* The integer an integral f32 stands for.
ToInt(a) ==
    LET v == IF a.e >= 0 THEN a.m * Pow2(a.e) ELSE a.m \div Pow2(0 - a.e)
    IN  IF a.neg THEN 0 - v ELSE v

\* w.hypot(h) for integral w and h (|w|, |h| < 2^14): the f32 nearest to
\* sqrt(w^2 + h^2), from a root of 26 bits and its remainder.
FHypot(w, h) ==
    LET S  == ToInt(w) * ToInt(w) + ToInt(h) * ToInt(h)
        k  == 26 - ((BitLen(S) + 1) \div 2)
        sr == SqrtLoop(0, 0, S, 14, k)
    IN  RoundPack(FALSE, sr[1], 0 - k, sr[2] # 0)

(***************************************************************************)
(* Program constants                                                       *)
(***************************************************************************)

PADDLE_SPEED == 1000
DESIRED_FPS == 60
LERP_TWEAK == 10

\* world.step(0.016): the literal, in microseconds and as the f32 it denotes.
WorldStepMicros == 16000
WorldStepDt == FDiv(FromInt(WorldStepMicros), FromInt(1000000))

\* rb.set_lin_vel(Vector2::new(1000.0, 0.0)) for the ball.
BallSpeed == 1000

\* let seconds = 1.0 / (DESIRED_FPS as f32);
Seconds == FDiv(FromInt(1), FromInt(DESIRED_FPS))

\* The duration of one fixed step as the timer counts it, in microseconds.
StepMicros == 1000000 \div DESIRED_FPS

\* Lerp::lerp for f32: self + (other - self) * t.
Lerp(self, other, t) == FAdd(self, FMul(FSub(other, self), t))

(***************************************************************************)
(* Levels (tiled::Map): object groups of typed, named, shaped objects      *)
(***************************************************************************)

Obj(type, name, shape, x, y, w, h) ==
    [obj_type |-> type, name |-> name, shape |-> shape,
     x |-> x, y |-> y, width |-> w, height |-> h]

WallObj       == Obj("wall", "", "Rect", 0, 0, 80, 4)
FloorObj      == Obj("wall", "", "Rect", 0, 56, 80, 4)
WallEllipse   == Obj("wall", "", "Ellipse", 0, 56, 80, 4)
PlayerObj     == Obj("paddle", "player_paddle", "Rect", 4, 20, 2, 20)
AiObj         == Obj("paddle", "ai_paddle", "Rect", 74, 20, 2, 20)
StrangerObj   == Obj("paddle", "paddle", "Rect", 40, 20, 2, 20)
PlayerEllipse == Obj("paddle", "player_paddle", "Ellipse", 4, 20, 2, 20)
BallObj       == Obj("ball", "ball", "Ellipse", 37, 27, 6, 8)
BallRect      == Obj("ball", "ball", "Rect", 37, 27, 6, 8)
DecorObj      == Obj("decor", "", "Polyline", 40, 0, 0, 60)

ObjectPool == {WallObj, WallEllipse, PlayerObj, AiObj, StrangerObj,
               PlayerEllipse, BallObj, BallRect, DecorObj}

\* Bound: the levels construction is tried on hold at most MaxObjects
\* objects, in two object groups.
MaxObjects == 4

MapOf(objs, cut) ==
    [object_groups |-> << [objects |-> SubSeq(objs, 1, cut)],
                          [objects |-> SubSeq(objs, cut + 1, Len(objs))] >>]

\* The first half of the objects is in the first group, the rest in the
\* second.
Maps ==
    { MapOf(objs, Len(objs) \div 2) :
        objs \in UNION { [1..n -> ObjectPool] : n \in 0..MaxObjects } }

\* The levels the game is run on.
ClassicMap == MapOf(<<WallObj, FloorObj, PlayerObj, AiObj, BallObj>>, 2)
RunMaps    == {ClassicMap}

\* The classic level with a decoration between its objects.
DecoratedMap ==
    MapOf(<<WallObj, FloorObj, DecorObj, PlayerObj, AiObj, BallObj>>, 3)

\* The objects of a level in the order the nested loops of MainState::new
\* visit them.
RECURSIVE Flatten(_)
Flatten(groups) ==
    IF groups = <<>> THEN <<>>
    ELSE Head(groups).objects \o Flatten(Tail(groups))

(***************************************************************************)
(* Bodies and the physics world                                            *)
(***************************************************************************)

None == 0

Vec(x, y) == <<x, y>>
VZero == Vec(FZero, FZero)

\* A rigid body.  shape is "Cuboid" (half extents hx, hy) or "Ball" (radius);
\* userData is user_data().is_some(), the wall marker.
Body(shape, hx, hy, radius, dynamic) ==
    [shape |-> shape, hx |-> hx, hy |-> hy, radius |-> radius,
     dynamic |-> dynamic, invMassZero |-> ~dynamic,
     pos |-> VZero, linVel |-> VZero, userData |-> FALSE]

AppendTranslation(rb, t) ==
    [rb EXCEPT !.pos = Vec(FAdd(rb.pos[1], t[1]), FAdd(rb.pos[2], t[2]))]

EmptyWorld == [bodies |-> <<>>, time |-> 0]

\* world.add_rigid_body(rb): the world with rb in it; the handle of the new
\* body is its index, Len(bodies).
AddRigidBody(world, rb) == [world EXCEPT !.bodies = Append(world.bodies, rb)]

\* Vector2::new(width, height) / 2.0
HalfExtents(object) ==
    Vec(FDiv(FromInt(object.width), FromInt(2)),
        FDiv(FromInt(object.height), FromInt(2)))

\* The rest of make_cuboid_rb, the half extents known: the body, static or
\* dynamic, moved to the centre of the object.
CuboidRb(object, half_extents, dynamic) ==
    AppendTranslation(
        Body("Cuboid", half_extents[1], half_extents[2], FZero, dynamic),
        Vec(FAdd(FromInt(object.x), half_extents[1]),
            FAdd(FromInt(object.y), half_extents[2])))

\* A make_cuboid_rb whose default arm gives half extents of zero instead of
\* panicking.
MakeCuboidRbLenient(object, dynamic) ==
    [panic |-> "",
     rb |-> CuboidRb(object,
                     IF object.shape = "Rect" THEN HalfExtents(object) ELSE VZero,
                     dynamic)]

\* make_cuboid_rb(object, dynamic): the body, or the panic.
MakeCuboidRb(object, dynamic) ==
    IF object.shape # "Rect"
    THEN [panic |-> "cuboid must be rect"]
    ELSE [panic |-> "", rb |-> CuboidRb(object, HalfExtents(object), dynamic)]

\* width.hypot(height) / 2.0
BallRadius(object) ==
    FDiv(FHypot(FromInt(object.width), FromInt(object.height)), FromInt(2))

\* The ball body of the given radius: dynamic, moved to the centre of the
\* object, with its initial velocity.
BallRb(object, radius) ==
    [AppendTranslation(Body("Ball", FZero, FZero, radius, TRUE),
                       Vec(FAdd(FromInt(object.x), radius),
                           FAdd(FromInt(object.y), radius)))
        EXCEPT !.linVel = Vec(FromInt(BallSpeed), FZero)]

\* The body MainState::new builds for a "ball" object, or the panic.
MakeBallRb(object) ==
    IF object.shape # "Ellipse"
    THEN [panic |-> "ball must be an ellipse"]
    ELSE [panic |-> "", rb |-> BallRb(object, BallRadius(object))]

(***************************************************************************)
(* MainState::new                                                          *)
(***************************************************************************)

\* Paddle::default()
PaddleDefault == [dy |-> FZero, rb |-> None]

NewStart ==
    [world |-> EmptyWorld, player |-> PaddleDefault, ai |-> PaddleDefault,
     ball |-> None, panic |-> ""]

\* The construction with rb added to its world; the handle of the body
\* added last.
Added(acc, rb) == [acc EXCEPT !.world = AddRigidBody(@, rb)]
LastHandle(acc) == Len(acc.world.bodies)

\* The arm of the match for a "wall" object, the body made.
AddWall(acc, made) ==
    IF made.panic # "" THEN [acc EXCEPT !.panic = made.panic]
    ELSE Added(acc, [made.rb EXCEPT !.userData = TRUE])

NewWall(acc, object) == AddWall(acc, MakeCuboidRb(object, FALSE))

\* match object.name.as_ref(), the paddle's body being the last added.
NamePaddle(acc, name) ==
    CASE name = "player_paddle" -> [acc EXCEPT !.player.rb = LastHandle(acc)]
      [] name = "ai_paddle"     -> [acc EXCEPT !.ai.rb = LastHandle(acc)]
      [] OTHER                  -> [acc EXCEPT !.panic = "unknown paddle name"]

\* The arm of the match for a "paddle" object, the body made.  The body is
\* in the world before the name is looked at.
AddPaddle(acc, name, made) ==
    IF made.panic # "" THEN [acc EXCEPT !.panic = made.panic]
    ELSE NamePaddle(Added(acc, [made.rb EXCEPT !.invMassZero = TRUE]), name)

\* A paddle arm whose "ai_paddle" case assigns the player's handle.
NewPaddleCopyPaste(acc, object) ==
    AddPaddle(acc,
              IF object.name = "ai_paddle" THEN "player_paddle" ELSE object.name,
              MakeCuboidRb(object, TRUE))

NewPaddle(acc, object) ==
    AddPaddle(acc, object.name, MakeCuboidRb(object, TRUE))

\* ball = Some(handle), the ball's body being the last added.
SetBall(acc) == [acc EXCEPT !.ball = LastHandle(acc)]

\* The arm of the match for a "ball" object, the body made.
AddBall(acc, made) ==
    IF made.panic # "" THEN [acc EXCEPT !.panic = made.panic]
    ELSE SetBall(Added(acc, made.rb))

NewBall(acc, object) == AddBall(acc, MakeBallRb(object))

\* The match on the type of an object.
NewObject(acc, object) ==
    CASE object.obj_type = "wall"   -> NewWall(acc, object)
      [] object.obj_type = "paddle" -> NewPaddle(acc, object)
      [] object.obj_type = "ball"   -> NewBall(acc, object)
      [] OTHER                      -> acc

\* The loops over the groups and their objects; a panic ends them.
RECURSIVE NewLoop(_, _)
NewLoop(objs, acc) ==
    IF objs = <<>> \/ acc.panic # "" THEN acc
    ELSE NewLoop(Tail(objs), NewObject(acc, Head(objs)))

\* ball: ball.unwrap() panics on None.
Unwrap(built) ==
    IF built.panic = "" /\ built.ball = None
    THEN [built EXCEPT !.panic = "unwrap on a None value"]
    ELSE built

\* MainState::new(map): the fields of the MainState, or the panic that ends
\* the process.
New(map) == Unwrap(NewLoop(Flatten(map.object_groups), NewStart))

(***************************************************************************)
(* The physics step and the fixed step of update                           *)
(***************************************************************************)

\* A body moved by its velocity over dt.
Moved(b, vel, dt) ==
    [b EXCEPT !.linVel = vel,
              !.pos = Vec(FAdd(b.pos[1], FMul(vel[1], dt)),
                          FAdd(b.pos[2], FMul(vel[2], dt)))]

\* One body after world.step(dt).  The engine is a capability of its own:
\* of it the model keeps that a dynamic body moves by its velocity times dt,
\* that a static body stays, that a body of zero inverse mass keeps its
\* velocity, and that a collision may reverse the ball's horizontal velocity
\* (bounce).
StepBody(b, dt, bounce) ==
    IF ~b.dynamic THEN b
    ELSE IF bounce /\ ~b.invMassZero
    THEN Moved(b, Vec(FNeg(b.linVel[1]), b.linVel[2]), dt)
    ELSE Moved(b, b.linVel, dt)

\* A world step that removes the body added last from the world.
WorldStepDespawn(w, bounce) ==
    [bodies |-> [i \in 1..(Len(w.bodies) - 1) |->
                    StepBody(w.bodies[i], WorldStepDt, bounce)],
     time   |-> w.time + WorldStepMicros]

\* world.step(0.016)
WorldStep(w, bounce) ==
    [bodies |-> [i \in 1..Len(w.bodies) |->
                    StepBody(w.bodies[i], WorldStepDt, bounce)],
     time   |-> w.time + WorldStepMicros]

\* timer::check_update_time(ctx, DESIRED_FPS): whether a fixed step is due.
CheckUpdateTime(res) == res >= StepMicros

\* A smoothing by LERP_TWEAK alone, the step duration left out.
SmoothUnscaled(dy, ax) ==
    Lerp(dy, FMul(FromInt(ax), FromInt(PADDLE_SPEED)), FromInt(LERP_TWEAK))

\* A smoothing with the receiver and the target of lerp exchanged.
SmoothSwapped(dy, ax) ==
    Lerp(FMul(FromInt(ax), FromInt(PADDLE_SPEED)), dy,
         FMul(FromInt(LERP_TWEAK), Seconds))

\* self.player.dy.lerp(self.axis * PADDLE_SPEED, LERP_TWEAK * seconds)
Smooth(dy, ax) ==
    Lerp(dy, FMul(FromInt(ax), FromInt(PADDLE_SPEED)),
         FMul(FromInt(LERP_TWEAK), Seconds))

\* A velocity write that reaches every paddle body (every dynamic body of
\* zero inverse mass) instead of the player's alone.
WriteAllPaddles(w, pl) ==
    [w EXCEPT !.bodies =
        [i \in 1..Len(w.bodies) |->
            IF w.bodies[i].dynamic /\ w.bodies[i].invMassZero
            THEN [w.bodies[i] EXCEPT !.linVel = Vec(FZero, pl.dy)]
            ELSE w.bodies[i]]]

\* if let Some(ref mut player_rb) = self.player.rb { set_lin_vel((0, dy)) }
WritePlayerVel(w, pl) ==
    IF pl.rb = None THEN w
    ELSE [w EXCEPT !.bodies[pl.rb].linVel = Vec(FZero, pl.dy)]

\* The state of update's loop after a fixed step that left the world as w
\* and smoothed the player's velocity to dy.
Stepped(s, w, dy) ==
    [world    |-> WritePlayerVel(w, [s.player EXCEPT !.dy = dy]),
     player   |-> [s.player EXCEPT !.dy = dy],
     residual |-> s.residual - StepMicros,
     steps    |-> s.steps + 1,
     prevDy   |-> s.player.dy]

\* A fixed step in the other order: the velocity is smoothed and written
\* first, and the world advances with it.
FixedStepSmoothFirst(s, ax, script) ==
    [Stepped(s, s.world, Smooth(s.player.dy, ax))
        EXCEPT !.world = WorldStep(@, (s.steps + 1) \in script)]

\* The body of the while loop of update, on s = [world, player, residual,
\* steps, prevDy]: the gate has consumed one step duration; the world
\* advances, the player's velocity is smoothed and written to its body.
FixedStep(s, ax, script) ==
    Stepped(s, WorldStep(s.world, (s.steps + 1) \in script),
            Smooth(s.player.dy, ax))

\* An update that empties the accumulator when it returns.
RECURSIVE UpdateLoopForgetting(_, _, _)
UpdateLoopForgetting(s, ax, script) ==
    IF CheckUpdateTime(s.residual)
    THEN UpdateLoopForgetting(FixedStep(s, ax, script), ax, script)
    ELSE [s EXCEPT !.residual = 0]

\* An update that tests the gate with `if`: at most one step per call.
UpdateOnce(s, ax, script) ==
    IF CheckUpdateTime(s.residual) THEN FixedStep(s, ax, script) ELSE s

\* while timer::check_update_time(ctx, DESIRED_FPS) { ... }
RECURSIVE UpdateLoop(_, _, _)
UpdateLoop(s, ax, script) ==
    IF CheckUpdateTime(s.residual)
    THEN UpdateLoop(FixedStep(s, ax, script), ax, script)
    ELSE s

(***************************************************************************)
(* draw                                                                    *)
(***************************************************************************)

NoFrame == [prims |-> <<>>, presented |-> FALSE, ok |-> TRUE]

\* The colour draw sets for a body: (100, 100, 100) for a body that carries
\* user data, (255, 255, 255) otherwise.
ColourOf(body) == IF body.userData THEN "wall" ELSE "active"

\* A primitive whose rectangle starts at the centre of the body instead of
\* its top-left corner.
PrimOfCentre(body) ==
    IF body.shape = "Cuboid"
    THEN [kind |-> "rectangle",
          x |-> body.pos[1], y |-> body.pos[2],
          w |-> FMul(body.hx, FromInt(2)), h |-> FMul(body.hy, FromInt(2)),
          radius |-> FZero, colour |-> ColourOf(body)]
    ELSE [kind |-> "circle",
          x |-> body.pos[1], y |-> body.pos[2], w |-> FZero, h |-> FZero,
          radius |-> body.radius, colour |-> ColourOf(body)]

\* The primitive draw emits for a body.
PrimOf(body) ==
    IF body.shape = "Cuboid"
    THEN [kind |-> "rectangle",
          x |-> FSub(body.pos[1], body.hx), y |-> FSub(body.pos[2], body.hy),
          w |-> FMul(body.hx, FromInt(2)), h |-> FMul(body.hy, FromInt(2)),
          radius |-> FZero, colour |-> ColourOf(body)]
    ELSE [kind |-> "circle",
          x |-> body.pos[1], y |-> body.pos[2], w |-> FZero, h |-> FZero,
          radius |-> body.radius, colour |-> ColourOf(body)]

\* A loop of draw that drops the result of a failed backend call and goes on
\* with the next body.
RECURSIVE DrawLoopIgnoring(_, _, _, _, _)
DrawLoopIgnoring(bodies, i, calls, prims, failAt) ==
    IF i > Len(bodies) THEN [prims |-> prims, presented |-> TRUE, ok |-> TRUE]
    ELSE IF failAt = calls + 1 \/ failAt = calls + 2
    THEN DrawLoopIgnoring(bodies, i + 1, calls + 2, prims, failAt)
    ELSE DrawLoopIgnoring(bodies, i + 1, calls + 2,
                          Append(prims, PrimOf(bodies[i])), failAt)

\* The loop of draw over the bodies from the i-th on.  calls counts the
\* backend calls made so far (set_color, rectangle, circle); the backend
\* fails the failAt-th of them (never, when failAt = 0), and the ? operator
\* returns that failure at once.
RECURSIVE DrawLoop(_, _, _, _, _)
DrawLoop(bodies, i, calls, prims, failAt) ==
    IF i > Len(bodies) THEN [prims |-> prims, presented |-> TRUE, ok |-> TRUE]
    ELSE IF failAt = calls + 1 \/ failAt = calls + 2
    THEN [prims |-> prims, presented |-> FALSE, ok |-> FALSE]
    ELSE DrawLoop(bodies, i + 1, calls + 2,
                  Append(prims, PrimOf(bodies[i])), failAt)

(***************************************************************************)
(* State                                                                   *)
(***************************************************************************)

VARIABLES
    map,         \* the level main() parsed
    phase,       \* "start", "running", "panicked" or "stopped"
    panic,       \* the panic message, "" when there is none
    world,       \* MainState.world
    axis,        \* MainState.axis (-1.0, 0.0 or 1.0, kept as the integer)
    player,      \* MainState.player
    ai,          \* MainState.ai
    ball,        \* MainState.ball
    residual,    \* the timer's accumulated time not yet consumed, microseconds
    quit,        \* ctx.quit() was called
    held,        \* the direction keys that are down on the keyboard
    last,        \* the last handler that ran, its key and, for draw, the
                 \* backend call that failed and its output
    steps,       \* fixed steps executed so far
    elapsed,     \* total time the timer was advanced by, microseconds
    prevDy,      \* player.dy as it was before the latest fixed step
    collisions,  \* the steps at which the engine reverses the ball
    budget       \* the number of fixed steps the run is followed for

vars == <<map, phase, panic, world, axis, player, ai, ball, residual, quit,
          held, last, steps, elapsed, prevDy, collisions, budget>>

Keys == {"Up", "Down", "Escape", "Q", "Space"}

DirectionKeys == {"Up", "Down"}
QuitKeys == {"Escape", "Q"}
OtherKeys == Keys \ (DirectionKeys \cup QuitKeys)

\* Bounds: the fixed steps a run is followed for, and the seconds the axis
\* is held for in SpecHold.
MaxSteps == 2
HoldSeconds == 5

\* Bound: the fixed steps a run on the decorated level is followed for.
DecorSteps == 1

\* Bounds: in SpecSteer the direction keys go down and up freely during the
\* first FreeSteps fixed steps and again from the HoldUntil-th on, for
\* FreeSteps more steps; between the two the keyboard is left as it is.
FreeSteps == 2
HoldUntil == 88

\* The collision scripts tried: the ball is never reversed, or is reversed
\* at the first step.
CollisionScripts == {{}, {1}}

\* The backend calls of a draw that are made to fail: none, the first
\* set_color, the drawing of the second body.
DrawFailures == {0, 1, 4}

\* The times between two frames tried, in microseconds.
Deltas == {0, 10000, 33000}
HoldDeltas == {StepMicros + 1, 2 * (StepMicros + 1)}

Called(op, key) == [op |-> op, key |-> key, failAt |-> 0, frame |-> NoFrame]

Boot(maps, scripts, b) ==
    /\ map \in maps
    /\ phase = "start"
    /\ panic = ""
    /\ world = EmptyWorld
    /\ axis = 0
    /\ player = PaddleDefault
    /\ ai = PaddleDefault
    /\ ball = None
    /\ residual = 0
    /\ quit = FALSE
    /\ held = {}
    /\ last = Called("main", "")
    /\ steps = 0
    /\ elapsed = 0
    /\ prevDy = FZero
    /\ collisions \in scripts
    /\ budget = b

Init == Boot(RunMaps, CollisionScripts, MaxSteps)

(***************************************************************************)
(* Actions                                                                 *)
(***************************************************************************)

\* The MainState is there, or the panic has ended the process.
Constructed(built) ==
    IF built.panic # ""
    THEN /\ phase' = "panicked"
         /\ panic' = built.panic
         /\ UNCHANGED <<world, player, ai, ball>>
    ELSE /\ phase' = "running"
         /\ world' = built.world
         /\ player' = built.player
         /\ ai' = built.ai
         /\ ball' = built.ball
         /\ UNCHANGED panic

\* main(): let state = &mut MainState::new(map).  A panic ends the process
\* and leaves no MainState.
Main ==
    /\ phase = "start"
    /\ Constructed(New(map))
    /\ axis' = 0
    /\ last' = Called("new", "")
    /\ UNCHANGED <<map, residual, quit, held, steps, elapsed, prevDy,
                   collisions, budget>>

\* The run loop advances the timer by the time d since the last frame, at
\* the start of a frame; no frame starts once quit was requested.
Tick(d) ==
    /\ phase = "running"
    /\ ~quit
    /\ (elapsed + d) \div StepMicros <= budget
    /\ residual' = residual + d
    /\ elapsed' = elapsed + d
    /\ last' = Called("tick", "")
    /\ UNCHANGED <<map, phase, panic, world, axis, player, ai, ball, quit,
                   held, steps, prevDy, collisions, budget>>

\* The fields update has written when its loop ends in s.
Updated(s) ==
    /\ world' = s.world
    /\ player' = s.player
    /\ residual' = s.residual
    /\ steps' = s.steps
    /\ prevDy' = s.prevDy

\* MainState::update
Update ==
    /\ phase = "running"
    /\ Updated(UpdateLoop([world |-> world, player |-> player,
                           residual |-> residual, steps |-> steps,
                           prevDy |-> prevDy], axis, collisions))
    /\ last' = Called("update", "")
    /\ UNCHANGED <<map, phase, panic, axis, ai, ball, quit, held, elapsed,
                   collisions, budget>>

\* A key_down_event in which the first direction pressed wins.
KeyDownAxisFirstWins(ax, keycode) ==
    CASE keycode = "Up" /\ ax = 0   -> 0 - 1
      [] keycode = "Down" /\ ax = 0 -> 1
      [] OTHER                      -> ax

\* A key_down_event whose default arm resets the axis.
KeyDownAxisReset(ax, keycode) ==
    CASE keycode = "Up"   -> 0 - 1
      [] keycode = "Down" -> 1
      [] OTHER            -> 0

\* MainState::key_down_event (a key that is held repeats)
KeyDownAxis(ax, keycode) ==
    CASE keycode = "Up"   -> 0 - 1
      [] keycode = "Down" -> 1
      [] OTHER            -> ax

\* A key_down_event whose quit arm matches Escape alone.
KeyDownQuitEscapeOnly(q, keycode) == q \/ keycode = "Escape"

\* Keycode::Escape | Keycode::Q => ctx.quit(): the request is kept until the
\* run loop looks at it.
KeyDownQuit(q, keycode) == q \/ keycode \in QuitKeys

KeyDown(keycode) ==
    /\ phase = "running"
    /\ axis' = KeyDownAxis(axis, keycode)
    /\ quit' = KeyDownQuit(quit, keycode)
    /\ held' = held \cup ({keycode} \cap DirectionKeys)
    /\ last' = Called("key_down", keycode)
    /\ UNCHANGED <<map, phase, panic, world, player, ai, ball, residual,
                   steps, elapsed, prevDy, collisions, budget>>

\* A key_up_event that tracks the released key: the axis is reset only by
\* the release of the key of its direction.
KeyUpAxisPerKey(ax, keycode) ==
    IF (keycode = "Up" /\ ax = 0 - 1) \/ (keycode = "Down" /\ ax = 1)
    THEN 0 ELSE ax

\* MainState::key_up_event
KeyUpAxis(ax, keycode) == 0

KeyUp(keycode) ==
    /\ phase = "running"
    /\ keycode \in DirectionKeys => keycode \in held
    /\ axis' = KeyUpAxis(axis, keycode)
    /\ held' = held \ {keycode}
    /\ last' = Called("key_up", keycode)
    /\ UNCHANGED <<map, phase, panic, world, player, ai, ball, residual, quit,
                   steps, elapsed, prevDy, collisions, budget>>

\* A draw that advances the physics world as well.
DrawStepping(failAt) ==
    /\ phase = "running"
    /\ last' = [op |-> "draw", key |-> IF last.op = "draw" THEN "again" ELSE "",
                failAt |-> failAt,
                frame |-> DrawLoop(world.bodies, 1, 0, <<>>, failAt)]
    /\ world' = WorldStep(world, FALSE)
    /\ UNCHANGED <<map, phase, panic, axis, player, ai, ball, residual,
                   quit, held, steps, elapsed, prevDy, collisions, budget>>

\* MainState::draw, the backend failing its failAt-th call (0: none).  The
\* record of the call says whether the handler before it was a draw as well.
Draw(failAt) ==
    /\ phase = "running"
    /\ last' = [op |-> "draw", key |-> IF last.op = "draw" THEN "again" ELSE "",
                failAt |-> failAt,
                frame |-> DrawLoop(world.bodies, 1, 0, <<>>, failAt)]
    /\ UNCHANGED <<map, phase, panic, world, axis, player, ai, ball, residual,
                   quit, held, steps, elapsed, prevDy, collisions, budget>>

\* The run loop ends between two frames once quit was requested.
Exit ==
    /\ phase = "running"
    /\ quit
    /\ phase' = "stopped"
    /\ last' = Called("exit", "")
    /\ UNCHANGED <<map, panic, world, axis, player, ai, ball, residual, quit,
                   held, steps, elapsed, prevDy, collisions, budget>>

Next ==
    \/ Main
    \/ \E d \in Deltas : Tick(d)
    \/ Update
    \/ \E k \in Keys : KeyDown(k)
    \/ \E k \in Keys : KeyUp(k)
    \/ \E f \in DrawFailures : Draw(f)
    \/ Exit

Spec == Init /\ [][Next]_vars

\* Construction alone, from every level of Maps.
InitNew == Boot(Maps, {{}}, 0)
NextNew == Main
SpecNew == InitNew /\ [][NextNew]_vars

\* The classic level with the Down key pressed before the first frame and
\* held: frames of one or two steps follow one another.
InitHold == Boot({ClassicMap}, {{}}, HoldSeconds * DESIRED_FPS + 2)
NextHold ==
    \/ Main
    \/ steps = 0 /\ residual = 0 /\ axis = 0 /\ KeyDown("Down")
    \/ axis = 1 /\ last.op # "tick" /\ \E d \in HoldDeltas : Tick(d)
    \/ axis = 1 /\ last.op = "tick" /\ Update
SpecHold == InitHold /\ [][NextHold]_vars

\* The game on the decorated level, the ball never reversed.
InitDecor == Boot({DecoratedMap}, {{}}, DecorSteps)
SpecDecor == InitDecor /\ [][Next]_vars

\* The same game with the run loop looking at the quit request after each
\* frame: an exit that stays possible is taken.
SpecQuit == InitDecor /\ [][Next]_vars /\ WF_vars(Exit)

\* The classic level steered: frames of one fixed step each, the direction
\* keys going down and up between them while KeysFree.
KeysFree == steps < FreeSteps \/ steps >= HoldUntil
InitSteer == Boot({ClassicMap}, {{}}, HoldUntil + FreeSteps)
NextSteer ==
    \/ Main
    \/ KeysFree /\ last.op # "tick" /\ \E k \in DirectionKeys : KeyDown(k)
    \/ KeysFree /\ last.op # "tick" /\ \E k \in DirectionKeys : KeyUp(k)
    \/ last.op # "tick" /\ Tick(StepMicros + 1)
    \/ last.op = "tick" /\ Update
SpecSteer == InitSteer /\ [][NextSteer]_vars

(***************************************************************************)
(* Claims                                                                  *)
(***************************************************************************)

\* C1: the axis is 0 when construction ends and is always one of -1, 0, +1;
\* a key-down of Up sets it to -1 and a key-down of Down sets it to +1,
\* whatever it was before.
C1_AxisLatestDirectionWins ==
    [][ /\ axis \in {0 - 1, 0, 1} /\ axis' \in {0 - 1, 0, 1}
        /\ Main => axis' = 0
        /\ KeyDown("Up") => axis' = 0 - 1
        /\ KeyDown("Down") => axis' = 1 ]_vars

\* C1 witness: Up went down while Down was held (the axis was +1 or 0), and
\* the axis is -1.
C1_Witness ==
    /\ last.op = "key_down" /\ last.key = "Up"
    /\ held = {"Up", "Down"}
    /\ axis = 0 - 1

\* C2: every key-up sets the axis to 0, whichever key it is and whichever
\* keys are still held, and the axis leaves 0 only by a key-down of a
\* direction key.
C2_KeyUpResetsAxis ==
    [][ /\ \A k \in Keys : KeyUp(k) => axis' = 0
        /\ (axis = 0 /\ axis' # 0) => \E k \in DirectionKeys : KeyDown(k) ]_vars

\* C2 witness: Up was released while Down is still held, and the axis is 0.
C2_Witness ==
    /\ last.op = "key_up" /\ last.key = "Up"
    /\ "Down" \in held
    /\ axis = 0

\* C3, as claimed: a key-down or key-up of a key that is none of Up, Down,
\* Escape, Q leaves the axis, the player's smoothed velocity and the world
\* unchanged.
C3_OtherKeysIgnored ==
    [][ \A k \in OtherKeys :
          (KeyDown(k) \/ KeyUp(k)) => UNCHANGED <<axis, player, world>> ]_vars

\* C3, amended: a key-down of such a key leaves the axis, the player's
\* smoothed velocity and the world unchanged; a key-up of such a key sets
\* the axis to 0, as every key-up does, and leaves the player's smoothed
\* velocity and the world unchanged.
C3_OtherKeyDownIgnored ==
    [][ \A k \in OtherKeys :
          /\ KeyDown(k) => UNCHANGED <<axis, player, world>>
          /\ KeyUp(k) => axis' = 0 /\ UNCHANGED <<player, world>> ]_vars

\* C3 witness: after a fixed step that smoothed towards a pressed direction,
\* Space went down and the axis is still that direction.
C3_Witness ==
    /\ last.op = "key_down" /\ last.key = "Space"
    /\ axis # 0
    /\ steps >= 1 /\ player.dy # FZero

\* C4: an update call executes as many fixed steps as whole step durations
\* are in the accumulated time and carries the remainder over; after every
\* update the total of steps is the whole number of step durations in the
\* total elapsed time; 33 ms from an empty accumulator give one step and
\* carry 16.334 ms over, 0 ms give no step.
C4_StepsPerUpdate ==
    [][ (last'.op = "update" /\ Update) =>
            /\ steps' - steps = residual \div StepMicros
            /\ residual' = residual % StepMicros
            /\ steps' = elapsed' \div StepMicros
            /\ residual = 33000 => (steps' = steps + 1 /\ residual' = 16334)
            /\ residual = 0 => steps' = steps ]_vars

\* C4 witness: an update has run two steps' worth of accumulated time (two
\* frames of 10 ms and 33 ms) and carries 9.668 ms over.
C4_Witness ==
    /\ last.op = "update"
    /\ elapsed = 43000 /\ steps = 2 /\ residual = 9668

\* C5, as claimed: after n fixed steps the simulated time of the world is
\* n step durations of 1/60 s, the time the accumulator has consumed.
C5_WorldTimeIsStepTime ==
    /\ world.time = steps * StepMicros
    /\ elapsed - residual = steps * StepMicros

\* C7: the ai paddle's smoothed velocity and its body's linear velocity stay
\* as constructed (zero) through every key event, update and draw; the ai
\* body is not the player's body, and of the bodies only the player's and
\* the ball have a velocity.
C7_AiVelocityIsolated ==
    phase = "running" =>
        /\ ai.dy = FZero
        /\ ai.rb # None => /\ ai.rb # player.rb
                           /\ world.bodies[ai.rb].linVel = VZero
        /\ \A i \in 1..Len(world.bodies) :
              i \notin {player.rb, ball} => world.bodies[i].linVel = VZero

\* C7 witness: fixed steps have run with a direction pressed, the player's
\* body moves, and the level has an ai paddle.
C7_Witness ==
    /\ phase = "running" /\ steps >= 2
    /\ ai.rb # None /\ player.rb # None
    /\ world.bodies[player.rb].linVel # VZero
    /\ world.bodies[player.rb].pos # world.bodies[ai.rb].pos

\* The f32 just below which the smoothing towards 1000 stops: 999.99988,
\* two units in the last place below 1000.
Saturated == [neg |-> FALSE, m |-> 16383998, e |-> 0 - 14]

\* C6, as claimed: from velocity 0 with the axis held at +1 the velocity
\* strictly increases at every fixed step, never exceeds PADDLE_SPEED, and is
\* above 990 after 5 seconds of steps.
C6_StrictlyIncreasing ==
    /\ steps >= 1 => FLt(prevDy, player.dy)
    /\ FLe(player.dy, FromInt(PADDLE_SPEED))
    /\ steps >= 5 * DESIRED_FPS => FLt(FromInt(990), player.dy)

\* C6, amended: the velocity strictly increases at each of the first 86
\* fixed steps and stays where it is from then on (at 999.99988: in f32 a
\* sixth of the remaining distance no longer changes it); it never exceeds
\* PADDLE_SPEED and is above 990 after 5 seconds of steps.
C6_IncreasingUntilSaturated ==
    /\ (steps >= 1 /\ steps <= 86) => FLt(prevDy, player.dy)
    /\ steps > 86 => (prevDy = player.dy /\ player.dy = Saturated)
    /\ FLe(player.dy, FromInt(PADDLE_SPEED))
    /\ steps >= 5 * DESIRED_FPS => FLt(FromInt(990), player.dy)

\* C6 witness: 5 seconds of steps have run with the axis at +1.
C6_Witness ==
    /\ axis = 1 /\ steps = 5 * DESIRED_FPS
    /\ last.op = "update"
    /\ FLt(FromInt(990), player.dy)

\* The objects of the level, and how many of them satisfy P.
LevelObjects == Flatten(map.object_groups)
CountObjects(P(_)) ==
    Cardinality({i \in 1..Len(LevelObjects) : P(LevelObjects[i])})
CountBodies(P(_)) ==
    Cardinality({i \in 1..Len(world.bodies) : P(world.bodies[i])})

IsWall(o)   == o.obj_type = "wall"
IsPaddle(o) == o.obj_type = "paddle"
IsBall(o)   == o.obj_type = "ball"
IsPlayerPaddle(o) == IsPaddle(o) /\ o.name = "player_paddle"
IsAiPaddle(o)     == IsPaddle(o) /\ o.name = "ai_paddle"

\* A well-formed object: a wall or a player or ai paddle that is a rectangle,
\* or a ball that is an ellipse.
WellFormed(o) ==
    \/ (IsWall(o) \/ IsPlayerPaddle(o) \/ IsAiPaddle(o)) /\ o.shape = "Rect"
    \/ IsBall(o) /\ o.shape = "Ellipse"

\* An object construction must abort on: a wall or paddle that is no
\* rectangle, a ball that is no ellipse, a paddle of unrecognised name.
Offending(o) ==
    \/ (IsWall(o) \/ IsPaddle(o)) /\ o.shape # "Rect"
    \/ IsBall(o) /\ o.shape # "Ellipse"
    \/ IsPaddle(o) /\ o.name \notin {"player_paddle", "ai_paddle"}

\* A valid level: walls, one player paddle, one ai paddle, one ball, all
\* well-formed, and nothing else.
ValidLevel ==
    /\ \A i \in 1..Len(LevelObjects) : WellFormed(LevelObjects[i])
    /\ CountObjects(IsPlayerPaddle) = 1
    /\ CountObjects(IsAiPaddle) = 1
    /\ CountObjects(IsBall) = 1

IsBallBody(b) == b.shape = "Ball"
IsWallBody(b) == b.userData /\ ~b.dynamic

\* No MainState exists: the fields are as before construction.
NoState ==
    /\ world = EmptyWorld /\ ball = None
    /\ player = PaddleDefault /\ ai = PaddleDefault

\* C8: construction from a valid level succeeds with one ball body and the
\* ball handle on it, a player handle and an ai handle on two different
\* cuboid bodies, and as many wall-marked static bodies as wall objects;
\* construction from a level with no ball object fails.
C8_ValidLevelConstructs ==
    last.op = "new" =>
        /\ ValidLevel =>
             /\ phase = "running"
             /\ CountBodies(IsBallBody) = 1
             /\ ball \in 1..Len(world.bodies) /\ IsBallBody(world.bodies[ball])
             /\ player.rb \in 1..Len(world.bodies)
             /\ ai.rb \in 1..Len(world.bodies)
             /\ player.rb # ai.rb
             /\ world.bodies[player.rb].shape = "Cuboid"
             /\ world.bodies[ai.rb].shape = "Cuboid"
             /\ CountBodies(IsWallBody) = CountObjects(IsWall)
        /\ CountObjects(IsBall) = 0 => (phase = "panicked" /\ NoState)

\* C8 witness: a valid level of a wall, the two paddles and the ball, with
\* the ball first, has been constructed.
C8_Witness ==
    /\ last.op = "new" /\ phase = "running" /\ ValidLevel
    /\ CountObjects(IsWall) = 1 /\ IsBall(LevelObjects[1])
    /\ Len(map.object_groups[1].objects) = 2

\* C9, as claimed: construction from a level with more than one ball object
\* is fatal and produces no state.
C9_TwoBallsFatal ==
    (last.op = "new" /\ CountObjects(IsBall) > 1) =>
        (phase = "panicked" /\ NoState)

\* C10: construction aborts and produces no state whenever the level holds
\* an offending object, whatever precedes or follows it.
C10_MalformedLevelAborts ==
    (last.op = "new" /\ \E i \in 1..Len(LevelObjects) : Offending(LevelObjects[i]))
        => (phase = "panicked" /\ panic # "" /\ NoState)

\* C10 witness: construction has aborted on a paddle of unknown name that
\* stands between well-formed objects.
C10_Witness ==
    /\ last.op = "new" /\ phase = "panicked" /\ panic = "unknown paddle name"
    /\ Len(LevelObjects) = 4
    /\ \E i \in 2..3 :
          /\ Offending(LevelObjects[i])
          /\ \A j \in (1..4) \ {i} : WellFormed(LevelObjects[j])

\* C11, as claimed: construction from a level that does not hold exactly one
\* player paddle and exactly one ai paddle is fatal, and in every constructed
\* state both paddle handles are present.
C11_BothPaddlesRequired ==
    last.op = "new" =>
        /\ (CountObjects(IsPlayerPaddle) # 1 \/ CountObjects(IsAiPaddle) # 1)
              => phase = "panicked"
        /\ phase = "running" => (player.rb # None /\ ai.rb # None)

\* The box body of the example: half extents (10, 20), centred at (50, 50).
ExampleBox ==
    AppendTranslation(Body("Cuboid", FromInt(10), FromInt(20), FZero, TRUE),
                      Vec(FromInt(50), FromInt(50)))

\* p is the rectangle of the integers x, y, w, h.
IsRectangle(p, x, y, w, h) ==
    /\ p.kind = "rectangle"
    /\ p.x = FromInt(x) /\ p.y = FromInt(y)
    /\ p.w = FromInt(w) /\ p.h = FromInt(h)

\* p is the primitive the claim gives for the body b.
DrawnAs(p, b) ==
    /\ b.shape = "Cuboid" =>
          /\ p.kind = "rectangle"
          /\ p.x = FSub(b.pos[1], b.hx) /\ p.y = FSub(b.pos[2], b.hy)
          /\ p.w = FMul(FromInt(2), b.hx) /\ p.h = FMul(FromInt(2), b.hy)
    /\ b.shape = "Ball" =>
          /\ p.kind = "circle"
          /\ p.x = b.pos[1] /\ p.y = b.pos[2] /\ p.radius = b.radius
    /\ p.colour = "wall" <=> b.userData

\* The objects of the level that MainState::new makes a body of, in the
\* order of their bodies.
IsBodyObject(o) == IsWall(o) \/ IsPaddle(o) \/ IsBall(o)
BodyObjects == SelectSeq(LevelObjects, IsBodyObject)

\* C12: a successful draw emits one primitive per body of the world, in the
\* order of the bodies: for a box the rectangle at centre - half extents of
\* size 2 * half extents (the example box gives (40, 30), (20, 40); before
\* the first step every box is drawn as the rectangle of its level object),
\* for a ball the circle at its centre with its radius; the colour is
\* "wall" exactly for a body with the wall marker, which the bodies of the
\* wall objects carry and the paddles and the ball do not.
C12_OnePrimitivePerBody ==
    /\ IsRectangle(PrimOf(ExampleBox), 40, 30, 20, 40)
    /\ (last.op = "draw" /\ last.frame.ok) =>
          /\ Len(last.frame.prims) = Len(world.bodies)
          /\ \A i \in 1..Len(world.bodies) :
                /\ DrawnAs(last.frame.prims[i], world.bodies[i])
                /\ world.bodies[i].userData <=> IsWall(BodyObjects[i])
                /\ (steps = 0 /\ world.bodies[i].shape = "Cuboid") =>
                      IsRectangle(last.frame.prims[i],
                                  BodyObjects[i].x, BodyObjects[i].y,
                                  BodyObjects[i].width, BodyObjects[i].height)
          /\ \A i \in {player.rb, ai.rb, ball} :
                last.frame.prims[i].colour = "active"

\* C12 witness: a draw has succeeded after a fixed step gave the player's
\* paddle a velocity, with two wall rectangles, two paddle rectangles and
\* the circle.
C12_Witness ==
    /\ last.op = "draw" /\ last.frame.ok /\ steps >= 1
    /\ world.bodies[player.rb].linVel # VZero
    /\ Len(last.frame.prims) = 5
    /\ last.frame.prims[1].colour = "wall"
    /\ last.frame.prims[5].kind = "circle"

\* C13: a draw leaves the physics world, the axis, both paddles' smoothed
\* velocities and the handles unchanged, and a successful draw that follows a
\* successful draw with no other handler between them emits the same
\* primitives in the same order.
C13_DrawIsPureRead ==
    [][ (last'.op = "draw" /\ Draw(last'.failAt)) =>
            /\ UNCHANGED <<world, axis, player, ai, ball>>
            /\ (last.op = "draw" /\ last.frame.ok /\ last'.frame.ok) =>
                   last'.frame.prims = last.frame.prims ]_vars

\* C13 witness: a second successful draw in a row, after a fixed step
\* smoothed the player's velocity.
C13_Witness ==
    /\ last.op = "draw" /\ last.key = "again" /\ last.frame.ok
    /\ steps >= 1 /\ player.dy # FZero
    /\ Len(last.frame.prims) = Len(world.bodies)

\* The player's paddle body, and a coordinate advanced by one world step at
\* velocity v.
PlayerBody == world.bodies[player.rb]
Advance(x, v) == FAdd(x, FMul(v, WorldStepDt))

\* C14: after every completed step the linear velocity of the player's body
\* is (0, player.dy); the world advance of a step moves the body by the
\* velocity the step before wrote, the smoothing of the step itself acting
\* only at the next advance: an update of one step moves the body by its
\* velocity of before the update, an update of two steps by that and then by
\* the velocity smoothed from the axis at the first of them; so the first
\* step after construction leaves the paddle where it is, whatever the axis,
\* while it already gives it a velocity when a direction is pressed.
C14_AdvanceThenSmoothThenWrite ==
    [][ /\ (steps' >= 1 /\ player.rb # None) =>
               PlayerBody'.linVel = Vec(FZero, player.dy')
        /\ (last'.op = "update" /\ player.rb # None /\ Update) =>
               /\ steps' = steps + 1 =>
                     /\ PlayerBody'.pos =
                            Vec(Advance(PlayerBody.pos[1], PlayerBody.linVel[1]),
                                Advance(PlayerBody.pos[2], PlayerBody.linVel[2]))
                     /\ player.dy' = Smooth(player.dy, axis)
               /\ steps' = steps + 2 =>
                     PlayerBody'.pos[2] =
                         Advance(Advance(PlayerBody.pos[2], PlayerBody.linVel[2]),
                                 Smooth(player.dy, axis))
               /\ (steps = 0 /\ steps' = 1) =>
                     /\ PlayerBody'.pos = PlayerBody.pos
                     /\ axis # 0 => PlayerBody'.linVel # VZero ]_vars

\* C14 witness: a second step has run after a first one that smoothed
\* towards a pressed direction, and the paddle has left its place.
C14_Witness ==
    /\ last.op = "update" /\ steps = 2 /\ player.rb # None
    /\ prevDy # FZero
    /\ PlayerBody.pos[2] # FromInt(PlayerObj.y + PlayerObj.height \div 2)
    /\ PlayerBody.linVel = Vec(FZero, player.dy)

\* C15: an update runs no step exactly when less than a step duration is
\* accumulated, and then leaves the world (every body's position and
\* velocity), the player's smoothed velocity and the accumulated time as they
\* are; no update loses time: the steps run so far and the time still
\* accumulated add up to the time elapsed, so once the frames sum to a step
\* duration the update that follows has run a step.
C15_ZeroStepUpdateKeepsTime ==
    [][ (last'.op = "update" /\ Update) =>
            /\ steps' = steps <=> residual < StepMicros
            /\ steps' = steps => UNCHANGED <<world, player, residual>>
            /\ steps' * StepMicros + residual' = elapsed'
            /\ elapsed' >= StepMicros => steps' >= 1 ]_vars

\* C15 witness: an update has run no step on a frame of 10 ms with a
\* direction pressed, and the 10 ms are still accumulated.
C15_Witness ==
    /\ last.op = "update" /\ steps = 0 /\ axis # 0
    /\ elapsed = 10000 /\ residual = 10000
    /\ player.dy = FZero

\* The frame is what the claim gives for a draw whose f-th backend call
\* fails, all being the primitives of a draw that does not fail.
Returned(frame, all, f) ==
    /\ frame.ok <=> (f = 0 \/ f > 2 * Len(all))
    /\ frame.ok => (frame.presented /\ frame.prims = all)
    /\ ~frame.ok =>
          (~frame.presented /\ frame.prims = SubSeq(all, 1, (f - 1) \div 2))

\* C16: a draw whose f-th backend call fails (each body takes two calls, its
\* set_color and its shape) returns the failure: the bodies before the one
\* the failing call belongs to have been drawn once each, no other body is
\* drawn, the frame is not presented; a draw with no failing call emits every
\* primitive, one per body, presents the frame and returns success; in both
\* cases the simulation state stays as it is.
C16_DrawFailureReturned ==
    [][ last'.op = "draw" =>
            /\ UNCHANGED <<world, axis, player, ai, ball, residual, steps>>
            /\ last'.failAt \in DrawFailures
            /\ last'.frame.ok => Len(last'.frame.prims) = Len(world.bodies)
            /\ Returned(last'.frame,
                        DrawLoop(world.bodies, 1, 0, <<>>, 0).prims,
                        last'.failAt) ]_vars

\* C16 witness: a draw has failed at the shape of the second body, after the
\* first body was drawn; the frame is not presented.
C16_Witness ==
    /\ last.op = "draw" /\ ~last.frame.ok /\ ~last.frame.presented
    /\ Len(last.frame.prims) = 1 /\ Len(world.bodies) > 2
    /\ steps >= 1

\* C17: a key-down of Escape or Q requests termination and leaves the axis,
\* the world, the paddles, the handles, the step count and the accumulated
\* time as they are; whatever was requested, every step that runs advances
\* the world by one world step, smooths the player's velocity from the axis
\* and writes it to the player's body; the run loop stops only with a
\* request, between handlers, and runs no step as it stops or afterwards; a
\* request leads to the run loop stopping.
C17_QuitBetweenFrames ==
    /\ [][ /\ \A k \in QuitKeys :
                 (last'.op = "key_down" /\ KeyDown(k)) =>
                     /\ quit'
                     /\ UNCHANGED <<axis, world, player, ai, ball, steps,
                                    residual>>
           /\ steps' # steps =>
                 /\ phase = "running" /\ phase' = "running"
                 /\ world'.time - world.time = (steps' - steps) * WorldStepMicros
                 /\ steps' = steps + 1 => player.dy' = Smooth(player.dy, axis)
                 /\ PlayerBody'.linVel = Vec(FZero, player.dy')
           /\ phase' = "stopped" => (quit /\ UNCHANGED <<world, player, axis>>)
         ]_vars
    /\ (quit ~> phase = "stopped")

\* C17 witness: the run loop has stopped on a request made while a frame's
\* time was already accumulated; the step of that frame has run in full.
C17_Witness ==
    /\ phase = "stopped" /\ quit /\ last.op = "exit"
    /\ steps = 1 /\ elapsed = 33000 /\ residual = 16334
    /\ axis # 0 /\ PlayerBody.linVel = Vec(FZero, player.dy)
    /\ player.dy # FZero

\* a and b are the same body but for where it is and how it moves.
SameBody(a, b) ==
    /\ a.shape = b.shape /\ a.hx = b.hx /\ a.hy = b.hy /\ a.radius = b.radius
    /\ a.dynamic = b.dynamic /\ a.invMassZero = b.invMassZero
    /\ a.userData = b.userData

\* C18: once constructed, the world keeps its bodies, each the body it was,
\* and the ball, player and ai handles keep their targets through every key
\* event, update, draw and the exit; the world has one body per wall, paddle
\* and ball object of the level and none for any other object.
C18_BodiesAndHandlesFixed ==
    [][ /\ phase = "running" =>
               /\ Len(world'.bodies) = Len(world.bodies)
               /\ \A i \in 1..Len(world.bodies) :
                      SameBody(world'.bodies[i], world.bodies[i])
               /\ ball' = ball /\ player'.rb = player.rb /\ ai'.rb = ai.rb
        /\ phase' \in {"running", "stopped"} =>
               Len(world'.bodies) = CountObjects(IsBodyObject) ]_vars

\* C18 witness: on the level with a decoration, a step has run and keys went
\* down and up; the world has its five bodies for six objects.
C18_Witness ==
    /\ phase = "running" /\ steps >= 1 /\ last.op = "key_up"
    /\ player.dy # FZero
    /\ Len(LevelObjects) = 6 /\ Len(world.bodies) = 5
    /\ ball = 5 /\ player.rb = 3 /\ ai.rb = 4

\* The target of the smoothing, and the distance below which a step may
\* leave the velocity where it is: a thousandth.
Target == FMul(FromInt(axis), FromInt(PADDLE_SPEED))
Tolerance == FDiv(FromInt(1), FromInt(PADDLE_SPEED))

WithinSpeed(v) ==
    FLe(FNeg(FromInt(PADDLE_SPEED)), v) /\ FLe(v, FromInt(PADDLE_SPEED))

\* A step from v to w is strictly closer to t without crossing it, or keeps
\* the velocity at t.
StrictlyCloser(v, w, t) ==
    /\ FLt(v, t) => (FLt(v, w) /\ FLe(w, t))
    /\ FLt(t, v) => (FLt(w, v) /\ FLe(t, w))
    /\ v = t => w = t

\* A step from v to w is not farther from t and does not cross it, and is
\* strictly closer when v is Tolerance or more away from t.
CloserWithinTolerance(v, w, t) ==
    /\ FLt(v, t) => (FLe(v, w) /\ FLe(w, t))
    /\ FLt(t, v) => (FLe(w, v) /\ FLe(t, w))
    /\ v = t => w = t
    /\ FLe(Tolerance, FSub(t, v)) => FLt(v, w)
    /\ FLe(Tolerance, FSub(v, t)) => FLt(w, v)

\* C19, as claimed: whatever the key events between the steps, the player's
\* smoothed velocity stays within -PADDLE_SPEED..PADDLE_SPEED, every step
\* moves it strictly closer to axis * PADDLE_SPEED without crossing it or
\* keeps it at that target, and with the axis at 0 every step strictly
\* decreases its magnitude unless it is 0.
C19_StrictlyCloserEachStep ==
    /\ WithinSpeed(player.dy)
    /\ last.op = "update" =>
          /\ StrictlyCloser(prevDy, player.dy, Target)
          /\ (axis = 0 /\ prevDy # FZero) => MagLt(player.dy, prevDy)

\* C19, amended: the velocity stays within -PADDLE_SPEED..PADDLE_SPEED; no
\* step moves it away from the target or across it, and a step moves it
\* strictly closer when it is a thousandth or more away from the target
\* (closer than that, a step may leave it where it is, short of the target);
\* with the axis at 0 a step strictly decreases a magnitude of a thousandth
\* or more and increases none.
C19_CloserUntilResolution ==
    /\ WithinSpeed(player.dy)
    /\ last.op = "update" =>
          /\ CloserWithinTolerance(prevDy, player.dy, Target)
          /\ axis = 0 =>
                /\ ~MagLt(prevDy, player.dy)
                /\ (FLe(Tolerance, prevDy) \/ FLe(prevDy, FNeg(Tolerance)))
                      => MagLt(player.dy, prevDy)

\* C19 witness: after keys went down and up over the first steps and Down
\* was then held until the velocity stood still short of the target, the
\* key was released, and a step with the axis at 0 has brought the velocity
\* down.
C19_Witness ==
    /\ last.op = "update" /\ axis = 0 /\ held = {}
    /\ steps = HoldUntil + 1
    /\ prevDy = Saturated
    /\ FLt(FZero, player.dy) /\ FLt(player.dy, prevDy)

=============================================================================
